---- MODULE Spec2Model ----
(***************************************************************************)
(* Model of process_video (src/object-detection-video.ipynb, lines         *)
(* 194-303): the frame processing loop of the DETR video notebook.         *)
(*                                                                         *)
(* One call of process_video is followed from its first statement to the   *)
(* point where control is back with the caller.  The video source, the     *)
(* output sink, the detector and the clock are the environment: what they  *)
(* answer is drawn from small sets.  Rates are in hundredths of a frame    *)
(* per second, confidences and thresholds in hundredths, times in          *)
(* milliseconds.                                                           *)
(***************************************************************************)
EXTENDS Integers, Sequences, FiniteSets

\* Largest number of readable frames of an input video.
MaxFrames == 2

\* `if pbar.n % 100 == 0` : the scratch-reclaim interval.
ReclaimInterval == 100

\* Values of the `threshold` parameter (0.50 and the default 0.90).
Thresholds == {50, 90}

\* Input videos: frame width, height and nominal frame rate (25.00, 29.97).
Sources == { [width |-> 640, height |-> 480, rate |-> 2500],
             [width |-> 1920, height |-> 1080, rate |-> 2997] }

\* end_time - start_time of one frame, in milliseconds.
Elapsed == {0, 40, 50}

\* What post_process_object_detection can return for a frame whose threshold
\* is t: the confidences of the detections, just below, at and above t.
DetectorOutputs(t) ==
    { <<>>, <<t>>, <<t + 1>>, <<t - 1, t + 1>>, <<t + 1, t, t + 5>> }

\* Exceptions of the per-frame loop, by the step that raises them.
LoopErrors ==
    [ read   |-> "ReadError",
      detect |-> "DetectError",
      render |-> "RenderError",
      timing |-> "ZeroDivisionError",
      encode |-> "EncodeError" ]

\* Steps of the loop body in which a library call can raise.
RaisingSteps == {"read", "detect", "render", "encode"}

NoFrame == [id |-> 0, boxes |-> <<>>, fpsText |-> -1]

VARIABLES
    pc,            \* position in process_video
    mpsAvailable,  \* torch.backends.mps.is_available()
    sourceOk,      \* environment: the input can be opened
    sinkOk,        \* environment: the output can be created
    source,        \* environment: geometry and nominal rate of the input
    readable,      \* environment: number of frames that decode
    ending,        \* environment: what follows them, "eos" or "decode"
    threshold,     \* parameter `threshold`
    modelDevice,   \* device the global `model` is on
    device,        \* local `device`
    cap,           \* "none" | "failed" | "open" | "released"
    out,           \* "none" | "failed" | "open" | "released"
    outParams,     \* (fps, width, height) given to cv2.VideoWriter
    pbar,          \* [state, total, n]
    fps,           \* local `fps`
    frame_count,
    total_fps,
    readCalls,     \* number of cap.read() calls
    readSignal,    \* what the last failed read was: "none" | "eos" | "decode"
    frame,         \* the frame buffer of the current iteration
    results,       \* scores of results["scores"]
    elapsed,       \* end_time - start_time of the current frame, -1 before
    written,       \* frames handed to out.write, in order
    reclaims,      \* number of periodic empty_cache/gc.collect runs
    log,           \* what was printed
    exc,           \* exception in flight
    thrown,        \* first exception raised in the call
    result,        \* "running" | "returned" | "raised"
    raised         \* exception the caller receives

vars == << pc, mpsAvailable, sourceOk, sinkOk, source, readable, ending,
           threshold, modelDevice, device, cap, out, outParams, pbar, fps,
           frame_count, total_fps, readCalls, readSignal, frame, results,
           elapsed, written, reclaims, log, exc, thrown, result, raised >>

env == << mpsAvailable, sourceOk, sinkOk, source, readable, ending, threshold >>

----------------------------------------------------------------------------
\* Pure functions

\* int(x) of a non-negative value held in hundredths.
IntTrunc(x) == (x \div 100) * 100

\* 1 / (end_time - start_time), in hundredths, for e > 0 milliseconds.
InstFps(e) == (100 * 1000) \div e

\* f"{fps:.1f}": the value in tenths.
Fmt1(x) == (x + 5) \div 10

\* Keep with the boundary included (>= for >).
Keep_Inclusive(scores, t) == SelectSeq(scores, LAMBDA c : c >= t)

\* keep = scores > threshold ; scores[keep]
Keep(scores, t) == SelectSeq(scores, LAMBDA c : c > t)

\* CAP_PROP_FRAME_COUNT of the input: the frames that decode, and the
\* one that does not when the stream is damaged.
TotalFrames == IF ending = "decode" THEN readable + 1 ELSE readable

Logged(kind, arg) == Append(log, [kind |-> kind, arg |-> arg])

----------------------------------------------------------------------------
Init ==
    /\ pc = "start"
    /\ mpsAvailable \in BOOLEAN
    /\ sourceOk \in BOOLEAN
    /\ sinkOk \in BOOLEAN
    /\ source \in Sources
    /\ readable \in 0..MaxFrames
    /\ ending \in {"eos", "decode"}
    /\ threshold \in Thresholds
    /\ modelDevice = "cpu"
    /\ device = "none"
    /\ cap = "none"
    /\ out = "none"
    /\ outParams = << 0, 0, 0 >>
    /\ pbar = [state |-> "none", total |-> 0, n |-> 0]
    /\ fps = 0
    /\ frame_count = 0
    /\ total_fps = 0
    /\ readCalls = 0
    /\ readSignal = "none"
    /\ frame = NoFrame
    /\ results = <<>>
    /\ elapsed = -1
    /\ written = <<>>
    /\ reclaims = 0
    /\ log = <<>>
    /\ exc = "none"
    /\ thrown = "none"
    /\ result = "running"
    /\ raised = "none"

----------------------------------------------------------------------------
\* Lines 198-201: choose the device, report it, move the model to it.
SelectDevice ==
    /\ pc = "start"
    /\ device' = IF mpsAvailable THEN "mps" ELSE "cpu"
    /\ log' = Logged("device", device')
    /\ modelDevice' = device'
    /\ pc' = "open"
    /\ UNCHANGED << env, cap, out, outParams, pbar, fps, frame_count,
                    total_fps, readCalls, readSignal, frame, results,
                    elapsed, written, reclaims, exc, thrown, result, raised >>

\* Lines 203-205, the source does not open: ValueError leaves the function.
\* The statement is outside the try block, so neither the except clause
\* nor the finally clause runs.
OpenSourceFails ==
    /\ pc = "open"
    /\ ~sourceOk
    /\ cap' = "failed"
    /\ exc' = "ValueError"
    /\ thrown' = "ValueError"
    /\ raised' = "ValueError"
    /\ result' = "raised"
    /\ pc' = "done"
    /\ UNCHANGED << env, modelDevice, device, out, outParams, pbar, fps,
                    frame_count, total_fps, readCalls, readSignal, frame,
                    results, elapsed, written, reclaims, log >>

\* Lines 203-219, the source opens: read its properties, create the writer
\* and the progress bar, reset the running statistics.  cv2.VideoWriter does
\* not raise when the file cannot be created and out.isOpened() is not asked.
OpenAndSetup ==
    /\ pc = "open"
    /\ sourceOk
    /\ cap' = "open"
    /\ fps' = IntTrunc(source.rate)
    /\ outParams' = << fps', source.width, source.height >>
    /\ out' = IF sinkOk THEN "open" ELSE "failed"
    /\ pbar' = [state |-> "open", total |-> TotalFrames, n |-> 0]
    /\ frame_count' = 0
    /\ total_fps' = 0
    /\ pc' = "read"
    /\ UNCHANGED << env, modelDevice, device, readCalls, readSignal, frame,
                    results, elapsed, written, reclaims, log, exc, thrown,
                    result, raised >>

\* Lines 222-223, ret is True: the next frame is in `frame`.
ReadFrame ==
    /\ pc = "read"
    /\ cap = "open"
    /\ readCalls < readable
    /\ readCalls' = readCalls + 1
    /\ frame' = [id |-> readCalls + 1, boxes |-> <<>>, fpsText |-> -1]
    /\ pc' = "detect"
    /\ UNCHANGED << env, modelDevice, device, cap, out, outParams, pbar, fps,
                    frame_count, total_fps, readSignal, results, elapsed,
                    written, reclaims, log, exc, thrown, result, raised >>

\* Lines 222-225, ret is False: break.  The code sees only `ret`; whether the
\* stream ended or the frame failed to decode is known to the source alone.
ReadStops ==
    /\ pc = "read"
    /\ cap = "open"
    /\ readCalls >= readable
    /\ readCalls' = readCalls + 1
    /\ readSignal' = ending
    /\ frame' = NoFrame
    /\ pc' = "finally"
    /\ UNCHANGED << env, modelDevice, device, cap, out, outParams, pbar, fps,
                    frame_count, total_fps, results, elapsed, written,
                    reclaims, log, exc, thrown, result, raised >>

\* Lines 228-241: start the clock, convert the colours, run the model and
\* post-process; results["scores"] is what the detector found.
Detect ==
    /\ pc = "detect"
    /\ \E r \in DetectorOutputs(threshold) : results' = r
    /\ elapsed' = -1
    /\ pc' = "render"
    /\ UNCHANGED << env, modelDevice, device, cap, out, outParams, pbar, fps,
                    frame_count, total_fps, readCalls, readSignal, frame,
                    written, reclaims, log, exc, thrown, result, raised >>

\* Lines 242-271: filter by confidence and draw every detection kept.
FilterAndRender ==
    /\ pc = "render"
    /\ frame' = [frame EXCEPT !.boxes = Keep(results, threshold)]
    /\ pc' = "timing"
    /\ UNCHANGED << env, modelDevice, device, cap, out, outParams, pbar, fps,
                    frame_count, total_fps, readCalls, readSignal, results,
                    elapsed, written, reclaims, log, exc, thrown, result,
                    raised >>

\* Timing that counts the frame before the division, so that a frame whose
\* FPS computation fails is counted as well.
Timing_CountsFirst ==
    /\ pc = "timing"
    /\ \E e \in Elapsed :
        /\ elapsed' = e
        /\ frame_count' = frame_count + 1
        /\ IF e = 0
           THEN /\ exc' = LoopErrors.timing
                /\ thrown' = LoopErrors.timing
                /\ pc' = "except"
                /\ UNCHANGED << fps, total_fps >>
           ELSE /\ fps' = InstFps(e)
                /\ total_fps' = total_fps + fps'
                /\ pc' = "encode"
                /\ UNCHANGED << exc, thrown >>
    /\ UNCHANGED << env, modelDevice, device, cap, out, outParams, pbar,
                    readCalls, readSignal, frame, results, written, reclaims,
                    log, result, raised >>

\* Lines 273-279: stop the clock, fps = 1 / elapsed, update the statistics.
\* Float division by zero raises ZeroDivisionError.
Timing ==
    /\ pc = "timing"
    /\ \E e \in Elapsed :
        /\ elapsed' = e
        /\ IF e = 0
           THEN /\ exc' = LoopErrors.timing
                /\ thrown' = LoopErrors.timing
                /\ pc' = "except"
                /\ UNCHANGED << fps, total_fps, frame_count >>
           ELSE /\ fps' = InstFps(e)
                /\ total_fps' = total_fps + fps'
                /\ frame_count' = frame_count + 1
                /\ pc' = "encode"
                /\ UNCHANGED << exc, thrown >>
    /\ UNCHANGED << env, modelDevice, device, cap, out, outParams, pbar,
                    readCalls, readSignal, frame, results, written, reclaims,
                    log, result, raised >>

\* Encode that skips the write of a frame on which nothing was drawn.
Encode_SkipsEmpty ==
    /\ pc = "encode"
    /\ frame' = [frame EXCEPT !.fpsText = Fmt1(fps)]
    /\ written' = IF frame.boxes = <<>> THEN written
                  ELSE Append(written, frame')
    /\ pbar' = [pbar EXCEPT !.n = pbar.n + 1]
    /\ reclaims' = IF pbar'.n % ReclaimInterval = 0
                   THEN reclaims + 1 ELSE reclaims
    /\ pc' = "read"
    /\ UNCHANGED << env, modelDevice, device, cap, out, outParams, fps,
                    frame_count, total_fps, readCalls, readSignal, results,
                    elapsed, log, exc, thrown, result, raised >>

\* Lines 282-289: draw the FPS counter, write the frame, advance the progress
\* bar, reclaim scratch memory every ReclaimInterval frames.
Encode ==
    /\ pc = "encode"
    /\ frame' = [frame EXCEPT !.fpsText = Fmt1(fps)]
    /\ written' = Append(written, frame')
    /\ pbar' = [pbar EXCEPT !.n = pbar.n + 1]
    /\ reclaims' = IF pbar'.n % ReclaimInterval = 0
                   THEN reclaims + 1 ELSE reclaims
    /\ pc' = "read"
    /\ UNCHANGED << env, modelDevice, device, cap, out, outParams, fps,
                    frame_count, total_fps, readCalls, readSignal, results,
                    elapsed, log, exc, thrown, result, raised >>

\* A library call of the loop body raises (lines 223-284).
StepRaises ==
    /\ pc \in RaisingSteps
    /\ exc' = LoopErrors[pc]
    /\ thrown' = LoopErrors[pc]
    /\ pc' = "except"
    /\ UNCHANGED << env, modelDevice, device, cap, out, outParams, pbar, fps,
                    frame_count, total_fps, readCalls, readSignal, frame,
                    results, elapsed, written, reclaims, log, result, raised >>

\* An except clause without its `raise`: the error is reported and dropped.
ExceptHandler_Swallows ==
    /\ pc = "except"
    /\ log' = Logged("error", exc)
    /\ exc' = "none"
    /\ pc' = "finally"
    /\ UNCHANGED << env, modelDevice, device, cap, out, outParams, pbar, fps,
                    frame_count, total_fps, readCalls, readSignal, frame,
                    results, elapsed, written, reclaims, thrown, result,
                    raised >>

\* Lines 291-293: report the error and re-raise it.
ExceptHandler ==
    /\ pc = "except"
    /\ log' = Logged("error", exc)
    /\ pc' = "finally"
    /\ UNCHANGED << env, modelDevice, device, cap, out, outParams, pbar, fps,
                    frame_count, total_fps, readCalls, readSignal, frame,
                    results, elapsed, written, reclaims, exc, thrown, result,
                    raised >>

\* Lines 294-301: close the progress bar, release source and sink, free the
\* accelerator memory, move the model back to the CPU.
Finally ==
    /\ pc = "finally"
    /\ pbar' = [pbar EXCEPT !.state = "closed"]
    /\ cap' = "released"
    /\ out' = "released"
    /\ modelDevice' = "cpu"
    /\ pc' = "exit"
    /\ UNCHANGED << env, device, outParams, fps, frame_count, total_fps,
                    readCalls, readSignal, frame, results, elapsed, written,
                    reclaims, log, exc, thrown, result, raised >>

\* Line 303, or the re-raised exception leaving the function.
Exit ==
    /\ pc = "exit"
    /\ IF exc = "none"
       THEN /\ log' = Logged("completed", "")
            /\ result' = "returned"
            /\ UNCHANGED raised
       ELSE /\ raised' = exc
            /\ result' = "raised"
            /\ UNCHANGED log
    /\ pc' = "done"
    /\ UNCHANGED << env, modelDevice, device, cap, out, outParams, pbar, fps,
                    frame_count, total_fps, readCalls, readSignal, frame,
                    results, elapsed, written, reclaims, exc, thrown >>

Next ==
    \/ SelectDevice
    \/ OpenSourceFails
    \/ OpenAndSetup
    \/ ReadFrame
    \/ ReadStops
    \/ Detect
    \/ FilterAndRender
    \/ Timing
    \/ Encode
    \/ StepRaises
    \/ ExceptHandler
    \/ Finally
    \/ Exit

Spec == Init /\ [][Next]_vars

\* process_video is sequential code: a call that can take a step takes it.
FairSpec == Spec /\ WF_vars(Next)

----------------------------------------------------------------------------
\* Vocabulary of the properties

Occ(s, c) == Cardinality({ i \in DOMAIN s : s[i] = c })

Range(s) == { s[i] : i \in DOMAIN s }

LoopErrorNames == { LoopErrors[k] : k \in DOMAIN LoopErrors }

HasLogged(kind) == \E i \in DOMAIN log : log[i].kind = kind

Finalized ==
    /\ pbar.state = "closed"
    /\ cap = "released"
    /\ out = "released"

----------------------------------------------------------------------------
\* C1: once the detections of a frame are drawn, the boxes on the frame are
\* exactly the detections whose confidence is strictly greater than the
\* threshold: none at or below it is drawn, none above it is skipped; and
\* every box on a frame handed to the sink has confidence above the threshold.
C1_RenderedIffAboveThreshold ==
    /\ pc \in {"timing", "encode"} =>
         /\ \A c \in Range(results) :
              Occ(frame.boxes, c) = IF c > threshold THEN Occ(results, c) ELSE 0
         /\ Range(frame.boxes) \subseteq Range(results)
    /\ \A i \in DOMAIN written :
         \A c \in Range(written[i].boxes) : c > threshold

\* A frame with detections above, at and on top of the threshold was rendered.
C1_Witness ==
    /\ pc = "encode"
    /\ results = << threshold + 1, threshold, threshold + 5 >>
    /\ frame.boxes = << threshold + 1, threshold + 5 >>

\* C2: an exception raised in the per-frame loop reaches the caller unchanged,
\* and only when the progress bar is closed and source and sink are released;
\* the call never returns normally and never prints the completion message.
C2_LoopErrorCleansUpThenReraises ==
    thrown \in LoopErrorNames =>
        /\ result # "returned"
        /\ ~HasLogged("completed")
        /\ pc \in {"exit", "done"} => Finalized
        /\ pc = "done" => result = "raised" /\ raised = thrown
        /\ result = "raised" => Finalized /\ modelDevice = "cpu"

\* A detector failure on the second frame has reached the caller.
C2_Witness ==
    /\ result = "raised"
    /\ raised = LoopErrors.detect
    /\ Len(written) = 1

\* C3: when control is back with the caller, on every path, no handle is
\* open and the model is back on the CPU.
C3_FinalizeUnconditional ==
    result # "running" =>
        /\ cap # "open"
        /\ out # "open"
        /\ pbar.state # "open"
        /\ modelDevice = "cpu"

\* C4: a source that does not open, a source of zero frames and a sink that
\* cannot be created each end the call with the open failure, before any
\* frame is read and before the loop starts.
C4_OpenFailureInInit ==
    (pc \notin {"start", "open"} /\ (~sourceOk \/ TotalFrames = 0 \/ ~sinkOk)) =>
        /\ result = "raised"
        /\ raised = "ValueError"
        /\ readCalls = 0

\* C5: after a read that failed for another reason than the end of the
\* stream, the call ends with an error, not with the completion message,
\* with source and sink released and the frames before it written.
C5_DecodeFailureIsFatal ==
    (result # "running" /\ readSignal = "decode") =>
        /\ result = "raised"
        /\ ~HasLogged("completed")
        /\ Finalized
        /\ Len(written) = readable

\* C6: a frame whose elapsed time is zero raises nothing.
C6_ZeroElapsedGuarded ==
    elapsed = 0 => exc = "none" /\ thrown = "none"

\* C7: every call ends; a call that returns after n frames were read up to
\* the end of the stream, with the sink created, has handed exactly the
\* frames 1..n to the sink, each once and in the order read, whatever was
\* detected on them, and the sink was created with the width and height of
\* the source.
C7_OneWritePerFrameRead ==
    /\ <>(result # "running")
    /\ [](( result = "returned" /\ readSignal = "eos" /\ sinkOk ) =>
            /\ Len(written) = readable
            /\ \A i \in DOMAIN written : written[i].id = i
            /\ outParams[2] = source.width
            /\ outParams[3] = source.height)

\* A video of MaxFrames frames without a detection above the threshold was
\* processed to the end.
C7_Witness ==
    /\ result = "returned"
    /\ readSignal = "eos"
    /\ sinkOk
    /\ readable = MaxFrames
    /\ Len(written) = MaxFrames
    /\ \A i \in DOMAIN written : written[i].boxes = <<>>

\* C8: an error that reaches the caller was printed before.
C8_EveryErrorLogged ==
    result = "raised" =>
        \E i \in DOMAIN log : log[i].kind = "error" /\ log[i].arg = raised

\* C9: the sink is created with the nominal frame rate of the source and
\* keeps it, and the FPS counter drawn on a frame is that frame's
\* 1 / elapsed.
C9_SinkRateIsNominal ==
    /\ out # "none" => outParams[1] = source.rate
    /\ (pc = "read" /\ written # <<>> /\ elapsed > 0) =>
           written[Len(written)].fpsText = Fmt1(InstFps(elapsed))

\* C10: at the head of the loop and after its normal exit, frame_count, the
\* number of frames handed to the sink and the progress counter are equal;
\* frame_count never decreases, and frame_count and total_fps change
\* together, by one frame, in the step that ends a frame's timing.
C10_StatsInStep ==
    /\ []( ( pc = "read" \/ (pc \in {"finally", "exit", "done"}
                              /\ thrown = "none") ) =>
             /\ frame_count = Len(written)
             /\ frame_count = pbar.n )
    /\ [][ /\ frame_count' \in {frame_count, frame_count + 1}
           /\ (frame_count' = frame_count + 1) <=> (pc = "timing" /\ pc' = "encode")
           /\ (total_fps' # total_fps) => (frame_count' = frame_count + 1)
           /\ (frame_count' = frame_count + 1) =>
                 total_fps' = total_fps + InstFps(elapsed') ]_vars

\* Two frames were counted, written and reported, and the loop ended normally.
C10_Witness ==
    /\ pc = "finally"
    /\ thrown = "none"
    /\ frame_count = MaxFrames
    /\ pbar.n = MaxFrames
    /\ Len(written) = MaxFrames

====
